---- MODULE Spec2Model ----
(***************************************************************************)
(* A model of the 2048 board engine (game_board.py), of the three search   *)
(* strategies built on it (ai.py) and of the game loop that drives them    *)
(* (main.py).                                                              *)
(*                                                                         *)
(* Conventions.  A grid is a tuple of rows, a row a tuple of tile values;  *)
(* index k+1 of the model is index k of the numpy array.  Python's None is *)
(* the empty tuple <<>> and any other optional value x is <<x>>.  A heap   *)
(* is a tuple of grids: a GameBoard object is an index into it, so that    *)
(* clone() (a new object) and an alias (the same index) are different      *)
(* things.  Tile values are the floats of the source, all of them small    *)
(* integers here.                                                          *)
(***************************************************************************)
EXTENDS Integers, Sequences, FiniteSets, TLC

VARIABLES
    grid,           \* self.board.grid: the caller's board
    original_grid,  \* np.copy of the grid, taken before the last move or insert
    op,             \* the last operation made on the board
    arg,            \* the arguments of the last move or insert_tile
    ret,            \* what the last move, insert or query returned
    raised,         \* whether the last operation raised an exception
    move_score,     \* what calculate_move_score(original_grid) returned, if called
    move_count,     \* self.move_count: the moves made on the board so far
    mcts,           \* the activation of AI.mcts_move: where it is, its tree and boards
    game            \* the GameGrid around the board: its score, flags and strategy

vars == <<grid, original_grid, op, arg, ret, raised, move_score, move_count, mcts, game>>

-----------------------------------------------------------------------------
(* Directions, game_board.py generate_dirs: 0 Up, 1 Down, 2 Left, 3 Right. *)

Up == 0
Down == 1
Left == 2
Right == 3

generate_dirs == <<Up, Down, Left, Right>>

None == <<>>
Some(x) == <<x>>

-----------------------------------------------------------------------------
(* numpy views and constructors used by GameBoard.move                     *)

\* F applied to x once x has been computed: a statement "name = x" followed
\* by the statements F stands for
With(x, F(_)) == IF x = x THEN F(x) ELSE F(x)

\* for k in lo..hi: s = Body(s, k), the statements of a loop body being Body
\* and s what they read and write.  The range is run as its first half
\* followed by its second half.
RECURSIVE ForEach(_, _, _, _)
ForEach(Body(_, _), s, lo, hi) ==
    CASE lo > hi -> s
      [] lo = hi -> Body(s, lo)
      [] OTHER   -> With(ForEach(Body, s, lo, (lo + hi) \div 2), LAMBDA half :
                        ForEach(Body, half, (lo + hi) \div 2 + 1, hi))

\* The tuple <<F(1), ..., F(n)>>, built element by element.
RECURSIVE Tabulate(_, _, _)
Tabulate(F(_), k, n) == IF k > n THEN <<>> ELSE <<F(k)>> \o Tabulate(F, k + 1, n)

np_zeros(n, m) == Tabulate(LAMBDA i : Tabulate(LAMBDA j : 0, 1, m), 1, n)

\* a[:, ::-1]: every row reversed
FlipCols(a) ==
    Tabulate(LAMBDA i : Tabulate(LAMBDA j : a[i][Len(a[i]) + 1 - j], 1, Len(a[i])), 1, Len(a))

\* a[::-1, :]: the rows in reverse order
FlipRows(a) == Tabulate(LAMBDA i : a[Len(a) + 1 - i], 1, Len(a))

\* a.T
Transpose(a) ==
    Tabulate(LAMBDA i : Tabulate(LAMBDA j : a[j][i], 1, Len(a)), 1, Len(a[1]))

-----------------------------------------------------------------------------
(* merge: one left-to-right pass over each row, updating the row in place. *)

\* merge with the doubling on the wrong tile: the right one of the pair
\* doubles and the left one is cleared
RECURSIVE merge_row_doubling_right(_, _)
merge_row_doubling_right(row, j) ==
    IF j > Len(row) - 1 THEN row
    ELSE IF row[j] = row[j + 1] /\ row[j] # 0
         THEN merge_row_doubling_right([row EXCEPT ![j] = 0, ![j + 1] = 2 * row[j]], j + 1)
         ELSE merge_row_doubling_right(row, j + 1)

\* merge without the equality test: any two adjacent tiles merge into their
\* sum
RECURSIVE merge_row_any_pair(_, _)
merge_row_any_pair(row, j) ==
    IF j > Len(row) - 1 THEN row
    ELSE IF row[j] # 0 /\ row[j + 1] # 0
         THEN merge_row_any_pair([row EXCEPT ![j] = row[j] + row[j + 1], ![j + 1] = 0], j + 1)
         ELSE merge_row_any_pair(row, j + 1)

\* merge that doubles the left tile of a pair and leaves the right one
RECURSIVE merge_row_not_clearing(_, _)
merge_row_not_clearing(row, j) ==
    IF j > Len(row) - 1 THEN row
    ELSE IF row[j] = row[j + 1] /\ row[j] # 0
         THEN merge_row_not_clearing([row EXCEPT ![j] = 2 * row[j]], j + 1)
         ELSE merge_row_not_clearing(row, j + 1)

RECURSIVE merge_row(_, _)
merge_row(row, j) ==
    IF j > Len(row) - 1 THEN row
    ELSE IF row[j] = row[j + 1] /\ row[j] # 0
         THEN merge_row([row EXCEPT ![j] = 2 * row[j], ![j + 1] = 0], j + 1)
         ELSE merge_row(row, j + 1)

merge(a) == Tabulate(LAMBDA i : merge_row(a[i], 1), 1, Len(a))

(* justify_left: the non-zero values of each row of a, in order, written   *)
(* to out from its first column on; c counts the values written.           *)

RECURSIVE justify_row(_, _, _, _)
justify_row(row, j, c, out) ==
    IF j > Len(row) THEN out
    ELSE IF row[j] # 0
         THEN justify_row(row, j + 1, c + 1, [out EXCEPT ![c] = row[j]])
         ELSE justify_row(row, j + 1, c, out)

justify_left(a, out) == Tabulate(LAMBDA i : justify_row(a[i], 1, 1, out[i]), 1, Len(a))

(* The grid GameBoard.move leaves in self.grid, per direction.  Any other  *)
(* direction value (None) matches no branch and leaves the grid alone.     *)

\* the pipeline without its first justify_left: merge sees the gaps
LeftPipelineUnjustified(a) == justify_left(merge(a), np_zeros(Len(a), Len(a)))

LeftPipeline(a) ==
    LET z1 == np_zeros(Len(a), Len(a))
        z2 == np_zeros(Len(a), Len(a))
    IN  justify_left(merge(justify_left(a, z1)), z2)

\* move with Up's reorientation undone in the wrong order
move_grid_bad_undo(a, dir) ==
    IF dir = Some(Up) THEN Transpose(FlipCols(LeftPipeline(Transpose(FlipCols(a)))))
    ELSE IF dir = Some(Down) THEN Transpose(FlipCols(LeftPipeline(FlipCols(Transpose(a)))))
    ELSE IF dir = Some(Left) THEN LeftPipeline(a)
    ELSE IF dir = Some(Right) THEN FlipRows(FlipCols(LeftPipeline(FlipRows(FlipCols(a)))))
    ELSE a

move_grid(a, dir) ==
    IF dir = Some(Up) THEN FlipCols(Transpose(LeftPipeline(Transpose(FlipCols(a)))))
    ELSE IF dir = Some(Down) THEN Transpose(FlipCols(LeftPipeline(FlipCols(Transpose(a)))))
    ELSE IF dir = Some(Left) THEN LeftPipeline(a)
    ELSE IF dir = Some(Right) THEN FlipRows(FlipCols(LeftPipeline(FlipRows(FlipCols(a)))))
    ELSE a

-----------------------------------------------------------------------------
(* get_available_from_zeros: one row-major scan.  saw_0/saw_1 say whether  *)
(* a zero / a tile was seen earlier in the current row, v_saw_0/v_saw_1    *)
(* whether one was seen higher up in the column.  Returns [uc, dc, lc, rc].*)

\* the scan with the Left and Right flags exchanged
ScanCellSwapped(s, v, j) ==
    IF v = 0
    THEN [s EXCEPT !.saw_0 = TRUE,
                   !.v_saw_0 = [s.v_saw_0 EXCEPT ![j] = TRUE],
                   !.lc = s.lc \/ s.saw_1,
                   !.dc = s.dc \/ s.v_saw_1[j]]
    ELSE IF v > 0
    THEN [s EXCEPT !.saw_1 = TRUE,
                   !.v_saw_1 = [s.v_saw_1 EXCEPT ![j] = TRUE],
                   !.rc = s.rc \/ s.saw_0,
                   !.uc = s.uc \/ s.v_saw_0[j]]
    ELSE s

ScanCell(s, v, j) ==
    IF v = 0
    THEN [s EXCEPT !.saw_0 = TRUE,
                   !.v_saw_0 = [s.v_saw_0 EXCEPT ![j] = TRUE],
                   !.rc = s.rc \/ s.saw_1,
                   !.dc = s.dc \/ s.v_saw_1[j]]
    ELSE IF v > 0
    THEN [s EXCEPT !.saw_1 = TRUE,
                   !.v_saw_1 = [s.v_saw_1 EXCEPT ![j] = TRUE],
                   !.lc = s.lc \/ s.saw_0,
                   !.uc = s.uc \/ s.v_saw_0[j]]
    ELSE s

RECURSIVE ScanRow(_, _, _)
ScanRow(s, row, j) ==
    IF j > Len(row) THEN s ELSE ScanRow(ScanCell(s, row[j], j), row, j + 1)

RECURSIVE ScanRows(_, _, _)
ScanRows(s, a, i) ==
    IF i > Len(a) THEN s
    ELSE ScanRows(ScanRow([s EXCEPT !.saw_0 = FALSE, !.saw_1 = FALSE], a[i], 1), a, i + 1)

get_available_from_zeros(a) ==
    LET s0 == [uc |-> FALSE, dc |-> FALSE, lc |-> FALSE, rc |-> FALSE,
               saw_0 |-> FALSE, saw_1 |-> FALSE,
               v_saw_0 |-> Tabulate(LAMBDA j : FALSE, 1, Len(a[1])),
               v_saw_1 |-> Tabulate(LAMBDA j : FALSE, 1, Len(a[1]))]
    IN  With(ScanRows(s0, a, 1), LAMBDA s : <<s.uc, s.dc, s.lc, s.rc>>)

-----------------------------------------------------------------------------
(* GameBoard objects.  h is the heap, b the object; every method returns   *)
(* the heap it leaves, cut back to the objects that existed when it was    *)
(* called (its own locals are gone), and its return value.                 *)

\* clone() returning the board itself
clone_self(h, b) == [heap |-> h, ref |-> b]

\* clone(): a new object holding np.copy(self.grid)
clone(h, b) == [heap |-> Append(h, h[b]), ref |-> Len(h) + 1]

Forget(h, n) == SubSeq(h, 1, n)

\* insert_tile writing nothing
insert_tile_nothing(h, b, pos, value) == [heap |-> h, raised |-> FALSE]

\* insert_tile refusing an occupied cell
insert_tile_checked(h, b, pos, value) ==
    IF pos[1] > Len(h[b]) \/ pos[2] > Len(h[b]) THEN [heap |-> h, raised |-> TRUE]
    ELSE IF h[b][pos[1]][pos[2]] # 0 THEN [heap |-> h, raised |-> TRUE]
    ELSE [heap |-> [h EXCEPT ![b] = [h[b] EXCEPT ![pos[1]] =
                                        [h[b][pos[1]] EXCEPT ![pos[2]] = value]]],
          raised |-> FALSE]

\* insert_tile(pos, value): self.grid[pos[0]][pos[1]] = value.  numpy raises
\* IndexError for an index past the end of an axis; the method has no other
\* check and no return statement.
insert_tile(h, b, pos, value) ==
    IF pos[1] > Len(h[b]) \/ pos[2] > Len(h[b])
    THEN [heap |-> h, raised |-> TRUE]
    ELSE [heap |-> [h EXCEPT ![b] = [h[b] EXCEPT ![pos[1]] =
                                        [h[b][pos[1]] EXCEPT ![pos[2]] = value]]],
          raised |-> FALSE]

\* get_available_cells(): the zero cells, row-major
RECURSIVE CellsInRow(_, _, _)
CellsInRow(row, x, y) ==
    IF y > Len(row) THEN <<>>
    ELSE IF row[y] = 0 THEN <<(<<x, y>>)>> \o CellsInRow(row, x, y + 1)
    ELSE CellsInRow(row, x, y + 1)

RECURSIVE CellsFrom(_, _)
CellsFrom(a, x) ==
    IF x > Len(a) THEN <<>> ELSE CellsInRow(a[x], x, 1) \o CellsFrom(a, x + 1)

get_available_cells(a) == CellsFrom(a, 1)

\* move(dir, get_avail_call): the clone is taken first, self.grid is then
\* rebound to the moved grid, and the two are compared only on request
move(h, b, dir, get_avail_call) ==
    With(IF get_avail_call THEN clone(h, b) ELSE [heap |-> h, ref |-> b], LAMBDA c :
    With([c.heap EXCEPT ![b] = move_grid(c.heap[b], dir)], LAMBDA h1 :
        [heap |-> Forget(h1, Len(h)),
         ret  |-> IF get_avail_call THEN Some(h1[c.ref] # h1[b]) ELSE None]))

\* get_available_moves(): the directions the zero scan flags, and those a
\* move on a clone changes
AvailFrom(h, b, a1) ==
    ForEach(LAMBDA s, k :
                IF ~a1[generate_dirs[k] + 1]
                THEN With(clone(s.heap, b), LAMBDA board_clone :
                     With(move(board_clone.heap, board_clone.ref, Some(generate_dirs[k]),
                               TRUE), LAMBDA m :
                         [heap |-> Forget(m.heap, Len(h)),
                          ret  |-> IF m.ret = Some(TRUE)
                                   THEN Append(s.ret, generate_dirs[k])
                                   ELSE s.ret]))
                ELSE [heap |-> s.heap, ret |-> Append(s.ret, generate_dirs[k])],
            [heap |-> h, ret |-> <<>>], 1, Len(generate_dirs))

get_available_moves(h, b) == AvailFrom(h, b, get_available_from_zeros(h[b]))

\* calculate_move_score(original_grid)
RECURSIVE ScoreFrom(_, _, _, _)
ScoreFrom(a, original, i, j) ==
    IF i > Len(a) THEN 0
    ELSE IF j > Len(a) THEN ScoreFrom(a, original, i + 1, 1)
    ELSE (IF a[i][j] > original[i][j] /\ a[i][j] # 0 THEN a[i][j] ELSE 0)
         + ScoreFrom(a, original, i, j + 1)

calculate_move_score(a, original) == ScoreFrom(a, original, 1, 1)

\* get_max_tile()
get_max_tile(a) ==
    CHOOSE v \in {a[i][j] : i \in 1..Len(a), j \in 1..Len(a)} :
        \A i \in 1..Len(a), j \in 1..Len(a) : a[i][j] <= v

-----------------------------------------------------------------------------
(* AI.eval_board.  The floats of the source are modelled by integers.  A   *)
(* tile is 0 or a power of two, so its square root is p + q * sqrt(2) for   *)
(* two integers, written <<p, q>>; sums, differences and the cube of the    *)
(* smoothness are exact in that form, and the result is brought back to an  *)
(* integer with 1393/985 for sqrt(2), rounded down.  float('-inf') and      *)
(* float('inf') are two integers below and above every utility.             *)

NEG_INF == -2000000000

POS_INF == 2000000000

\* p + q * sqrt(2), added and subtracted
Z2Add(x, y) == <<x[1] + y[1], x[2] + y[2]>>

Z2Sub(x, y) == <<x[1] - y[1], x[2] - y[2]>>

\* np.sqrt of a tile
RECURSIVE np_sqrt(_)
np_sqrt(v) ==
    CASE v = 0 -> <<0, 0>>
      [] v = 1 -> <<1, 0>>
      [] v = 2 -> <<0, 1>>
      [] v = 4 -> <<2, 0>>
      [] v = 8 -> <<0, 2>>
      [] OTHER -> Z2Add(np_sqrt(v \div 4), np_sqrt(v \div 4))

\* np.abs(s_grid[..] - s_grid[..]); the square root is monotone
AbsDiff(v, w) ==
    IF v >= w THEN Z2Sub(np_sqrt(v), np_sqrt(w)) ELSE Z2Sub(np_sqrt(w), np_sqrt(v))

\* for j in range(grid.shape[1]-1): np.abs(s_grid[i,j] - s_grid[i,j+1])
RECURSIVE RowRoughness(_, _)
RowRoughness(row, j) ==
    IF j >= Len(row) THEN <<0, 0>>
    ELSE Z2Add(AbsDiff(row[j], row[j + 1]), RowRoughness(row, j + 1))

\* for i in range(grid.shape[0]): the loop over j
RECURSIVE RowsRoughness(_, _)
RowsRoughness(a, i) ==
    IF i > Len(a) THEN <<0, 0>>
    ELSE Z2Add(RowRoughness(a[i], 1), RowsRoughness(a, i + 1))

\* the two smoothness loops, the vertical one being the horizontal one of the
\* transposed grid; the result is -smoothness
Roughness(a) == Z2Add(RowsRoughness(a, 1), RowsRoughness(Transpose(a), 1))

\* x * sqrt(2), rounded down
MulSqrt2(x) == 1393 * (x \div 985) + ((x % 985) * 1393) \div 985

\* (-r) ** 3 for r = p + q * sqrt(2)
Cube(r) ==
    r[1] * (-(r[1] * r[1]) - 6 * r[2] * r[2])
      - MulSqrt2(3 * r[1] * r[1] * r[2] + 2 * r[2] * r[2] * r[2])

\* smoothness ** smoothness_w, smoothness_w = 3
SmoothU(a) == Cube(Roughness(a))

\* np.sum(np.power(grid, 2)), row by row
RECURSIVE RowSquares(_, _)
RowSquares(row, j) ==
    IF j > Len(row) THEN 0 ELSE row[j] * row[j] + RowSquares(row, j + 1)

RECURSIVE BigT(_, _)
BigT(a, i) ==
    IF i > Len(a) THEN 0 ELSE RowSquares(a[i], 1) + BigT(a, i + 1)

\* utility = big_t + empty_u + smooth_u, returned with its three parts
Utility(empty_u, smooth_u, big_t) ==
    <<big_t + empty_u + smooth_u, empty_u, smooth_u, big_t>>

\* eval_board(board, n_empty) = (utility, empty_u, smooth_u, big_t_u)
eval_board(a, n_empty) == Utility(n_empty * 100000, SmoothU(a), BigT(a, 1))

-----------------------------------------------------------------------------
(* Expectimax: AI.maximize and AI.chance.  A utility is the 4-tuple of      *)
(* eval_board; a move is Some(direction) or None.                           *)

Max(x, y) == IF x >= y THEN x ELSE y

Min(x, y) == IF x <= y THEN x ELSE y

\* utility_sum[i] += utility[i] * t[2], with the weight .9 * (1 / n_empty) or
\* .1 * (1 / n_empty) counted in units of 1 / (10 * n_empty); -inf absorbs
WeighIn(utility_sum, utility, weight) ==
    Tabulate(LAMBDA i : IF utility_sum[i] = NEG_INF \/ utility[i] = NEG_INF
                        THEN NEG_INF
                        ELSE utility_sum[i] + utility[i] * weight, 1, 4)

\* the sum, back in units of 1
Weighed(utility_sum, n_empty) ==
    Tabulate(LAMBDA i : IF utility_sum[i] = NEG_INF THEN NEG_INF
                        ELSE utility_sum[i] \div (10 * n_empty), 1, 4)

\* possible_tiles: (empty_cell, 2, chance_2), (empty_cell, 4, chance_4) per cell
RECURSIVE PossibleTiles(_, _)
PossibleTiles(empty_cells, k) ==
    IF k > Len(empty_cells) THEN <<>>
    ELSE <<(<<empty_cells[k], 2, 9>>), (<<empty_cells[k], 4, 1>>)>>
             \o PossibleTiles(empty_cells, k + 1)

\* what a method hands back: its result r = [heap, ret], the objects it made
\* dropped from the heap of n objects it was called on
Returned(r, n) == [ret |-> r.ret, heap |-> Forget(r.heap, n)]

\* c.move(m) on the copy c = [heap, ref] that clone() made
Moved(c, m) == [heap |-> move(c.heap, c.ref, Some(m), FALSE).heap, ref |-> c.ref]

\* c.insert_tile(pos, value) on the copy c = [heap, ref] that clone() made
Inserted(c, pos, value) ==
    [heap |-> insert_tile(c.heap, c.ref, pos, value).heap, ref |-> c.ref]

\* moves_boards.append((m, m_board))
MovesBoardsStep(moves_boards, m, m_board) ==
    [heap |-> m_board.heap, ret |-> Append(moves_boards, <<m, m_board.ref>>)]

\* the loop of maximize over every direction, legal or not
MovesBoardsAllDirs(moves, b) ==
    ForEach(LAMBDA s, k :
                MovesBoardsStep(s.ret, generate_dirs[k],
                                Moved(clone(s.heap, b), generate_dirs[k])),
            [heap |-> moves.heap, ret |-> <<>>], 1, Len(generate_dirs))

\* for m in moves: m_board = board.clone(); m_board.move(m);
\* moves_boards.append((m, m_board)), for moves = [heap, ret] as
\* get_available_moves returned it
MovesBoards(moves, b) ==
    ForEach(LAMBDA s, k :
                MovesBoardsStep(s.ret, moves.ret[k], Moved(clone(s.heap, b), moves.ret[k])),
            [heap |-> moves.heap, ret |-> <<>>], 1, Len(moves.ret))

RECURSIVE maximize(_, _, _, _)
RECURSIVE chance(_, _, _)

\* the comparison as utility[0] > max_utility[0]
MaximizeStepStrict(best, mb, utility) ==
    [heap |-> utility.heap,
     ret  |-> IF utility.ret[1] > best[2][1] THEN <<Some(mb[1]), utility.ret>> ELSE best]

\* if utility[0] >= max_utility[0]: max_utility = utility; best_direction =
\* mb[0], for best = (best_direction, max_utility)
MaximizeStep(best, mb, utility) ==
    [heap |-> utility.heap,
     ret  |-> IF utility.ret[1] >= best[2][1] THEN <<Some(mb[1]), utility.ret>> ELSE best]

\* for mb in moves_boards: utility = self.chance(mb[1], depth + 1), for
\* moves_boards = [heap, ret] as MovesBoards left it
MaximizeLoop(moves_boards, depth) ==
    ForEach(LAMBDA s, k :
                MaximizeStep(s.ret, moves_boards.ret[k],
                             chance(s.heap, moves_boards.ret[k][2], depth + 1)),
            [heap |-> moves_boards.heap, ret |-> <<None, <<NEG_INF, 0, 0, 0>>>>],
            1, Len(moves_boards.ret))

\* maximize(board, depth, max_depth) = (best_direction, max_utility)
maximize(h, b, depth, max_depth) ==
    IF depth >= max_depth
    THEN [heap |-> h,
          ret  |-> <<None, eval_board(h[b], Len(get_available_cells(h[b])))>>]
    ELSE Returned(MaximizeLoop(MovesBoards(get_available_moves(h, b), b), depth), Len(h))

\* _, utility = self.maximize(..): the utility of a (direction, utility) pair
Utility2(m) == [heap |-> m.heap, ret |-> m.ret[2]]

\* self.maximize(t_board, depth) on the copy [heap, ref], max_depth at its
\* default 3
MaximizeOn(t_board, depth) == maximize(t_board.heap, t_board.ref, depth, 3)

\* for i in range(4): utility_sum[i] += utility[i] * t[2], for
\* m = [heap, (_, utility)] as maximize returned it
ChanceStep(utility_sum, weight, m) ==
    [heap |-> m.heap, ret |-> WeighIn(utility_sum, m.ret[2], weight)]

\* for t in possible_tiles: t_board = board.clone(); t_board.insert_tile(t[0],
\* t[1]); _, utility = self.maximize(t_board, depth + 1)
ChanceLoop(h, b, possible_tiles, depth) ==
    ForEach(LAMBDA s, k :
                ChanceStep(s.ret, possible_tiles[k][3],
                           MaximizeOn(Inserted(clone(s.heap, b), possible_tiles[k][1],
                                               possible_tiles[k][2]), depth + 1)),
            [heap |-> h, ret |-> <<0, 0, 0, 0>>], 1, Len(possible_tiles))

\* return tuple(utility_sum), of chance called on a heap of n objects
ChanceReturned(s, n, n_empty) ==
    [heap |-> Forget(s.heap, n), ret |-> Weighed(s.ret, n_empty)]

\* chance from empty_cells = board.get_available_cells() on;
\* max_depth = max(3, int(5 / (grid_len / 4)))
ChanceOf(h, b, depth, empty_cells) ==
    IF Len(empty_cells) >= Len(h[b]) * 2 /\ depth >= Max(3, 20 \div Len(h[b]))
    THEN [heap |-> h, ret |-> eval_board(h[b], Len(empty_cells))]
    ELSE IF Len(empty_cells) = 0
    THEN Utility2(maximize(h, b, depth + 1, 3))
    ELSE ChanceReturned(ChanceLoop(h, b, PossibleTiles(empty_cells, 1), depth),
                        Len(h), Len(empty_cells))

\* chance(board, depth) = utility
chance(h, b, depth) == ChanceOf(h, b, depth, get_available_cells(h[b]))

-----------------------------------------------------------------------------
(* Minimax: AI.minimax_move and its inner minimax(board, depth,            *)
(* is_maximizing).  A value is the first component of eval_board, or one    *)
(* of the two infinities a layer starts from.                               *)

\* board_copy = board.clone(); board_copy.move(move); a 4 into the first
\* empty cell of the copy if it has one
MovedCopy(h, b, m) ==
    With(clone(h, b), LAMBDA board_copy :
    With(move(board_copy.heap, board_copy.ref, Some(m), FALSE), LAMBDA mv :
    With(get_available_cells(mv.heap[board_copy.ref]), LAMBDA empty_cells :
        [heap |-> IF empty_cells # <<>>
                  THEN insert_tile(mv.heap, board_copy.ref, empty_cells[1], 4).heap
                  ELSE mv.heap,
         ref  |-> board_copy.ref])))

RECURSIVE minimax(_, _, _, _)

\* minimax(board_copy, depth, is_maximizing) on the copy [heap, ref]
MinimaxOn(board_copy, depth, is_maximizing) ==
    minimax(board_copy.heap, board_copy.ref, depth, is_maximizing)

\* max_eval = max(max_eval, eval_score)
MaxLayerStep(max_eval, eval_score) ==
    [heap |-> eval_score.heap, ret |-> Max(max_eval, eval_score.ret)]

\* the maximizing layer's loop over moves = [heap, ret] as
\* get_available_moves returned it; ret is max_eval
MaxLayer(moves, b, depth) ==
    ForEach(LAMBDA s, k :
                MaxLayerStep(s.ret, MinimaxOn(MovedCopy(s.heap, b, moves.ret[k]),
                                              depth - 1, FALSE)),
            [heap |-> moves.heap, ret |-> NEG_INF], 1, Len(moves.ret))

\* min_eval = min(min_eval, eval_score)
MinLayerStep(min_eval, eval_score) ==
    [heap |-> eval_score.heap, ret |-> Min(min_eval, eval_score.ret)]

\* the minimizing layer's loop over empty cells; ret is min_eval
MinLayer(h, b, empty_cells, depth) ==
    ForEach(LAMBDA s, k :
                MinLayerStep(s.ret, MinimaxOn(Inserted(clone(s.heap, b), empty_cells[k], 4),
                                              depth - 1, TRUE)),
            [heap |-> h, ret |-> POS_INF], 1, Len(empty_cells))

\* minimax from the terminal test on, avail = [heap, ret] being
\* board.get_available_moves() when depth is not 0
MinimaxOf(h, b, depth, is_maximizing, avail) ==
    IF depth = 0 \/ Len(avail.ret) = 0
    THEN [heap |-> avail.heap,
          ret  |-> eval_board(avail.heap[b], Len(get_available_cells(avail.heap[b])))[1]]
    ELSE IF is_maximizing
    THEN Returned(MaxLayer(get_available_moves(avail.heap, b), b, depth), Len(h))
    ELSE Returned(MinLayer(avail.heap, b, get_available_cells(avail.heap[b]), depth),
                  Len(h))

\* depth == 0 or len(board.get_available_moves()) == 0 stops the recursion;
\* the moves are asked for only when depth is not 0
minimax(h, b, depth, is_maximizing) ==
    MinimaxOf(h, b, depth, is_maximizing,
              IF depth = 0 THEN [heap |-> h, ret |-> <<>>] ELSE get_available_moves(h, b))

\* if score > best_score: best_score = score; best_move = move, for
\* best = (best_move, best_score)
MinimaxStep(best, m, score) ==
    [heap |-> score.heap,
     ret  |-> IF score.ret > best[2] THEN <<Some(m), score.ret>> ELSE best]

\* the top-level loop over moves = [heap, ret] as get_available_moves
\* returned it
MinimaxLoop(moves, b, max_depth) ==
    ForEach(LAMBDA s, k :
                MinimaxStep(s.ret, moves.ret[k],
                            MinimaxOn(MovedCopy(s.heap, b, moves.ret[k]),
                                      max_depth - 1, FALSE)),
            [heap |-> moves.heap, ret |-> <<None, NEG_INF>>], 1, Len(moves.ret))

\* the move of a (move, value) pair: best_move, _ = ..; return best_move
BestMoveOf(r) == [heap |-> r.heap, ret |-> r.ret[1]]

\* minimax_move(board, max_depth) = best_move
minimax_move(h, b, max_depth) ==
    Returned(BestMoveOf(MinimaxLoop(get_available_moves(h, b), b, max_depth)), Len(h))

-----------------------------------------------------------------------------
(* Monte Carlo tree search: AI.mcts_move.  The tree is a tuple of nodes,   *)
(* node 1 the root; a node's board, parent and children are references.    *)

\* MCTSNode(board, parent, move)
MCTSNode(h, board, parent, m) ==
    With(get_available_moves(h, board), LAMBDA untried_moves :
        [heap |-> untried_moves.heap,
         node |-> [board |-> board, parent |-> parent, move |-> m,
                   children |-> <<>>, visits |-> 0, total_score |-> 0,
                   untried_moves |-> untried_moves.ret]])

\* uct_score is total_score / visits plus exploration_constant *
\* sqrt(log(parent.visits) / visits) in floating point.  The model keeps two
\* integers the score lies between: the exploration term is at least 0 and
\* less than 2 * parent.visits, and the integer average is within 2 of the
\* source's.
UctLow(tree, c) == tree[c].total_score \div tree[c].visits - 2

UctHigh(tree, c) ==
    tree[c].total_score \div tree[c].visits + 2 + 2 * tree[tree[c].parent[1]].visits

\* max(node.children, key=uct_score): the first child never visited (its
\* score is inf) if there is one, else a child no other child is sure to beat
UctBest(tree, n) ==
    With(tree[n].children, LAMBDA children :
    With({k \in 1..Len(children) : tree[children[k]].visits = 0}, LAMBDA unvisited :
        IF unvisited # {}
        THEN {children[CHOOSE k \in unvisited : \A l \in unvisited : k <= l]}
        ELSE {children[k] : k \in {k \in 1..Len(children) :
                  \A l \in 1..Len(children) :
                      UctLow(tree, children[l]) <= UctHigh(tree, children[k])}}))

\* the descent of select_and_expand: the nodes its while loop can stop at
RECURSIVE Selected(_, _)
Selected(tree, n) ==
    IF tree[n].untried_moves = <<>> /\ tree[n].children # <<>>
    THEN UNION {Selected(tree, c) : c \in UctBest(tree, n)}
    ELSE {n}

\* a remove that leaves the list as it is
remove_nothing(list, x) == list

\* node.untried_moves.remove(move)
RECURSIVE Remove(_, _)
Remove(list, x) ==
    IF list = <<>> THEN <<>>
    ELSE IF Head(list) = x THEN Tail(list)
    ELSE <<Head(list)>> \o Remove(Tail(list), x)

\* backpropagate that stops after the node it is given
backpropagate_node_only(tree, node, result) ==
    [tree EXCEPT ![node[1]].visits = @ + 1, ![node[1]].total_score = @ + result]

\* backpropagate(node, result)
RECURSIVE backpropagate(_, _, _)
backpropagate(tree, node, result) ==
    IF node = None THEN tree
    ELSE backpropagate([tree EXCEPT ![node[1]].visits = @ + 1,
                                    ![node[1]].total_score = @ + result],
                       tree[node[1]].parent, result)

\* the most visited child of the root, the last one on ties
BestMoveLast(tree) ==
    With(tree[1].children, LAMBDA children :
        IF children = <<>> THEN None
        ELSE tree[children[CHOOSE k \in 1..Len(children) :
                      /\ \A l \in 1..Len(children) :
                             tree[children[l]].visits <= tree[children[k]].visits
                      /\ \A l \in (k + 1)..Len(children) :
                             tree[children[l]].visits < tree[children[k]].visits]].move)

\* max(root.children, key=lambda c: c.visits).move if root.children else None
BestMove(tree) ==
    With(tree[1].children, LAMBDA children :
        IF children = <<>> THEN None
        ELSE tree[children[CHOOSE k \in 1..Len(children) :
                      /\ \A l \in 1..Len(children) :
                             tree[children[l]].visits <= tree[children[k]].visits
                      /\ \A l \in 1..(k - 1) :
                             tree[children[l]].visits < tree[children[k]].visits]].move)

\* No search is running
Idle ==
    [pc |-> "idle", tree |-> <<>>, boards |-> <<>>, leaf |-> 0,
     simulation_board |-> 0, iterations |-> 0, steps |-> 0]

-----------------------------------------------------------------------------
(* What the claims speak of.                                               *)

\* Line k of grid a along direction d, read from the edge the tiles move to.
LineOf(a, d, k) ==
    IF d = Left THEN a[k]
    ELSE IF d = Right THEN Tabulate(LAMBDA j : a[k][Len(a) + 1 - j], 1, Len(a))
    ELSE IF d = Up THEN Tabulate(LAMBDA i : a[i][k], 1, Len(a))
    ELSE Tabulate(LAMBDA i : a[Len(a) + 1 - i][k], 1, Len(a))

NonZeros(line) == SelectSeq(line, LAMBDA v : v # 0)

Pad(line, n) == line \o Tabulate(LAMBDA j : 0, 1, n - Len(line))

\* The tiles of a gap-free line paired off from its first tile on: two equal
\* neighbours give one tile of twice the value and are both used up.
RECURSIVE PairOff(_)
PairOff(c) ==
    IF Len(c) < 2 THEN c
    ELSE IF c[1] = c[2] THEN <<2 * c[1]>> \o PairOff(Tail(Tail(c)))
    ELSE <<c[1]>> \o PairOff(Tail(c))

\* The values of the tiles that pairing off creates, added up.
RECURSIVE PairScore(_)
PairScore(c) ==
    IF Len(c) < 2 THEN 0
    ELSE IF c[1] = c[2] THEN 2 * c[1] + PairScore(Tail(Tail(c)))
    ELSE PairScore(Tail(c))

RECURSIVE SumSeq(_)
SumSeq(line) == IF line = <<>> THEN 0 ELSE line[1] + SumSeq(Tail(line))

NumTiles(a) == SumSeq(Tabulate(LAMBDA i : Len(NonZeros(a[i])), 1, Len(a)))

\* Moving a in direction d changes it.
Changes(a, d) == move_grid(a, Some(d)) # a

\* No tile of the line lies behind a gap.
Packed(line) == \A j \in 1..Len(line) - 1 : line[j] = 0 => line[j + 1] = 0

RECURSIVE PowerOfTwo(_)
PowerOfTwo(v) == v >= 2 /\ (v = 2 \/ (v % 2 = 0 /\ PowerOfTwo(v \div 2)))

-----------------------------------------------------------------------------
(* The board interface, one operation on a board and then the score of a   *)
(* move: on every 3 x 3 board of tiles up to 4 (SpecBoard), and on the     *)
(* classic 4 x 4 board holding one line of tiles up to 8 (SpecClassic).    *)

GridLen == 3

DEFAULT_GRID_LEN == 4

TileValues == {0, 2, 4}

LineValues == {0, 2, 4, 8}

Grids == [1..GridLen -> [1..GridLen -> TileValues]]

\* The 4 x 4 boards whose tiles all lie in row r, or all in column r.
OneLineGrids ==
    LET n == DEFAULT_GRID_LEN
        InRow(r, line) == Tabulate(LAMBDA i : IF i = r THEN line ELSE np_zeros(1, n)[1], 1, n)
        Lines == [1..n -> LineValues]
    IN  {InRow(r, line) : r \in 1..n, line \in Lines}
        \cup {Transpose(InRow(r, line)) : r \in 1..n, line \in Lines}

CellsOf(a) == (1..Len(a)) \X (1..Len(a))

\* Positions a caller may pass: the cells, and one index past each axis.
Positions(a) == (1..Len(a) + 1) \X (1..Len(a) + 1)

\* No GameGrid: the board is used on its own.
NoGame ==
    [score |-> 0, game_over |-> FALSE, step_mode |-> FALSE, is_paused |-> FALSE,
     waiting_for_step |-> FALSE, scheduled |-> FALSE, strategy |-> None]

InitVars ==
    /\ original_grid = grid
    /\ op = "init"
    /\ arg = <<>>
    /\ ret = None
    /\ raised = FALSE
    /\ move_score = None
    /\ move_count = 0
    /\ mcts = Idle
    /\ game = NoGame

InitBoard == grid \in Grids /\ InitVars

InitClassic == grid \in OneLineGrids /\ InitVars

\* board.move(dir, get_avail_call)
Move(d, get_avail_call) ==
    /\ op = "init"
    /\ \E m \in {move(<<grid>>, 1, Some(d), get_avail_call)} :
           /\ grid' = m.heap[1]
           /\ ret' = m.ret
    /\ original_grid' = grid
    /\ op' = "move"
    /\ arg' = <<d, get_avail_call>>
    /\ raised' = FALSE
    /\ UNCHANGED <<move_score, move_count, mcts, game>>

\* board.get_available_moves()
GetAvailableMoves ==
    /\ op = "init"
    /\ \E m \in {get_available_moves(<<grid>>, 1)} :
           /\ grid' = m.heap[1]
           /\ ret' = Some(m.ret)
    /\ original_grid' = grid
    /\ op' = "get_available_moves"
    /\ raised' = FALSE
    /\ UNCHANGED <<arg, move_score, move_count, mcts, game>>

\* board.insert_tile(pos, value)
InsertTile(pos, value) ==
    /\ op = "init"
    /\ \E m \in {insert_tile(<<grid>>, 1, pos, value)} :
           /\ grid' = m.heap[1]
           /\ raised' = m.raised
    /\ ret' = None
    /\ original_grid' = grid
    /\ op' = "insert_tile"
    /\ arg' = <<pos, value>>
    /\ UNCHANGED <<move_score, move_count, mcts, game>>

\* board.calculate_move_score(original_grid), as the game loop calls it
\* right after board.move(move)
CalculateMoveScore ==
    /\ op = "move"
    /\ arg[2] = FALSE
    /\ move_score' = Some(calculate_move_score(grid, original_grid))
    /\ op' = "calculate_move_score"
    /\ UNCHANGED <<grid, original_grid, arg, ret, raised, move_count, mcts, game>>

NextBoard ==
    \/ \E d \in {Up, Down, Left, Right}, get_avail_call \in BOOLEAN : Move(d, get_avail_call)
    \/ GetAvailableMoves
    \/ \E pos \in Positions(grid), value \in {2, 4} : InsertTile(pos, value)
    \/ CalculateMoveScore

SpecBoard == InitBoard /\ [][NextBoard]_vars

SpecClassic == InitClassic /\ [][NextBoard]_vars

-----------------------------------------------------------------------------
(* The game's two operations on the board, in any order, from the empty    *)
(* 3 x 3 board GameGrid.init_matrix creates: a tile into an empty cell     *)
(* (add_random_tile) and a move in any direction.                          *)

MaxTiles == 2

MaxMoves == 2

InitPlay ==
    /\ grid = np_zeros(GridLen, GridLen)
    /\ InitVars

\* add_random_tile(): a 2 or a 4 into one of the empty cells; False when
\* there is none.  cell and value are the two random draws.
AddRandomTile(cell, value) ==
    /\ NumTiles(grid) < MaxTiles
    /\ \E empty_cells \in {get_available_cells(grid)} :
           IF empty_cells = <<>>
           THEN /\ ret' = Some(FALSE)
                /\ UNCHANGED grid
           ELSE /\ cell \in 1..Len(empty_cells)
                /\ grid' = insert_tile(<<grid>>, 1, empty_cells[cell], value).heap[1]
                /\ ret' = Some(TRUE)
    /\ op' = "add_random_tile"
    /\ raised' = FALSE
    /\ UNCHANGED <<original_grid, arg, move_score, move_count, mcts, game>>

\* original_grid = np.copy(self.board.grid); self.board.move(move);
\* self.move_count += 1, for any direction
PlayMove(d) ==
    /\ move_count < MaxMoves
    /\ original_grid' = grid
    /\ \E m \in {move(<<grid>>, 1, Some(d), FALSE)} :
           /\ grid' = m.heap[1]
           /\ ret' = m.ret
    /\ op' = "move"
    /\ arg' = <<d, FALSE>>
    /\ raised' = FALSE
    /\ move_count' = move_count + 1
    /\ UNCHANGED <<move_score, mcts, game>>

NextPlay ==
    \/ \E cell \in 1..GridLen * GridLen, value \in {2, 4} : AddRandomTile(cell, value)
    \/ \E d \in {Up, Down, Left, Right} : PlayMove(d)

SpecPlay == InitPlay /\ [][NextPlay]_vars

-----------------------------------------------------------------------------
(* AI.get_move on a board late in a 3 x 3 game: a locked checkerboard of   *)
(* 8s and 16s with one cell replaced.  Expectimax and Minimax run to their  *)
(* fixed depth in one step; mcts_move is followed through its loop, one     *)
(* step per phase and per move of a rollout, the wall clock being free to   *)
(* end the loop at any poll.  A call may follow any call that returned.     *)

EXPECTIMAX == 1

MINIMAX == 2

MCTS == 3

MaxIterations == 2

MaxRollout == 2

Checkerboard == <<(<<8, 16, 8>>), (<<16, 8, 16>>), (<<8, 16, 8>>)>>

SearchTiles == {0, 2, 8, 16, 32}

SearchCells == {<<1, 1>>, <<1, 2>>, <<2, 2>>}

SearchBoards ==
    {[Checkerboard EXCEPT ![pos[1]][pos[2]] = v] : pos \in SearchCells, v \in SearchTiles}

InitSearch ==
    /\ grid \in SearchBoards
    /\ InitVars

\* get_move(board) for the two fixed-depth strategies
get_move(h, b, strategy) ==
    IF strategy = EXPECTIMAX
    THEN BestMoveOf(maximize(h, b, 0, 3))
    ELSE minimax_move(h, b, 3)

GetMove(strategy) ==
    /\ mcts.pc = "idle"
    /\ original_grid' = grid
    /\ \E r \in {get_move(<<grid>>, 1, strategy)} :
           /\ grid' = r.heap[1]
           /\ ret' = r.ret
    /\ op' = "get_move"
    /\ arg' = <<strategy>>
    /\ raised' = FALSE
    /\ UNCHANGED <<move_score, move_count, mcts, game>>

\* mcts_move up to its loop: root = MCTSNode(board), the caller's board itself
MctsMove ==
    /\ mcts.pc = "idle"
    /\ original_grid' = grid
    /\ \E root \in {MCTSNode(<<grid>>, 1, None, None)} :
           /\ grid' = root.heap[1]
           /\ mcts' = [Idle EXCEPT !.pc = "loop", !.tree = <<root.node>>]
    /\ op' = "mcts_move"
    /\ arg' = <<MCTS>>
    /\ ret' = None
    /\ raised' = FALSE
    /\ UNCHANGED <<move_score, move_count, game>>

\* The elements of a list
Elements(list) == {list[k] : k \in 1..Len(list)}

\* A board no node of the tree holds is gone once the last name for it is
Release(h, tree, ref) ==
    IF \E n \in 1..Len(tree) : tree[n].board = ref THEN h ELSE Forget(h, ref - 1)

\* One pass of the loop up to the rollout: select_and_expand(root), then the
\* first line of simulate_game, simulation_board = leaf.board.clone().  The
\* node the descent stops at, and the move, the tile and its cell of an
\* expansion, are the random draws.  At most max_iterations passes are
\* followed.
SelectAndExpandWithin(max_iterations) ==
    /\ mcts.pc = "loop"
    /\ mcts.iterations < max_iterations
    /\ \E h \in {<<grid>> \o mcts.boards}, node \in Selected(mcts.tree, 1) :
           IF mcts.tree[node].untried_moves # <<>>
           THEN \E m \in Elements(mcts.tree[node].untried_moves),
                   new_board \in {clone(h, mcts.tree[node].board)} :
                \E mv \in {move(new_board.heap, new_board.ref, Some(m), FALSE)} :
                \E empty_cells \in {get_available_cells(mv.heap[new_board.ref])} :
                \E tile_value \in {2, 4}, tile_pos \in 1..Max(1, Len(empty_cells)) :
                \E child \in {MCTSNode(IF empty_cells # <<>>
                                       THEN insert_tile(mv.heap, new_board.ref,
                                                        empty_cells[tile_pos],
                                                        tile_value).heap
                                       ELSE mv.heap,
                                       new_board.ref, Some(node), Some(m))} :
                \E simulation_board \in {clone(child.heap, new_board.ref)} :
                    /\ grid' = simulation_board.heap[1]
                    /\ mcts' = [mcts EXCEPT
                           !.tree = Append([@ EXCEPT
                                        ![node].untried_moves = Remove(@, m),
                                        ![node].children = Append(@, Len(mcts.tree) + 1)],
                                    child.node),
                           !.boards = Tail(simulation_board.heap),
                           !.leaf = Len(mcts.tree) + 1,
                           !.simulation_board = simulation_board.ref,
                           !.steps = 0,
                           !.pc = "simulate"]
           ELSE \E simulation_board \in {clone(h, mcts.tree[node].board)} :
                    /\ grid' = simulation_board.heap[1]
                    /\ mcts' = [mcts EXCEPT !.boards = Tail(simulation_board.heap),
                                            !.leaf = node,
                                            !.simulation_board = simulation_board.ref,
                                            !.steps = 0,
                                            !.pc = "simulate"]
    /\ UNCHANGED <<original_grid, op, arg, ret, raised, move_score, move_count, game>>

SelectAndExpand == SelectAndExpandWithin(MaxIterations)

\* One pass of the while loop of simulate_game: a random legal move, then a
\* random tile into a random empty cell; at most max_steps passes are followed
SimulateGameWithin(max_steps) ==
    /\ mcts.pc = "simulate"
    /\ mcts.steps < max_steps
    /\ \E sb \in {mcts.simulation_board} :
       \E test \in {get_available_moves(<<grid>> \o mcts.boards, sb)} :
           /\ Len(test.ret) > 0
           /\ \E moves \in {get_available_moves(test.heap, sb)} :
              \E m \in Elements(moves.ret) :
              \E mv \in {move(moves.heap, sb, Some(m), FALSE)} :
              \E empty_cells \in {get_available_cells(mv.heap[sb])} :
              \E tile_value \in {2, 4}, tile_pos \in 1..Max(1, Len(empty_cells)) :
              \E h \in {IF empty_cells # <<>>
                        THEN insert_tile(mv.heap, sb, empty_cells[tile_pos],
                                         tile_value).heap
                        ELSE mv.heap} :
                  /\ grid' = h[1]
                  /\ mcts' = [mcts EXCEPT !.boards = Tail(h), !.steps = @ + 1]
    /\ UNCHANGED <<original_grid, op, arg, ret, raised, move_score, move_count, game>>

SimulateGame == SimulateGameWithin(MaxRollout)

\* The rest of the pass: simulate_game leaves its loop on a board with no
\* legal move and evaluates it, and backpropagate(leaf, simulation_result)
Backpropagate ==
    /\ mcts.pc = "simulate"
    /\ \E sb \in {mcts.simulation_board} :
       \E test \in {get_available_moves(<<grid>> \o mcts.boards, sb)} :
           /\ Len(test.ret) = 0
           /\ \E simulation_result \in
                  {eval_board(test.heap[sb], Len(get_available_cells(test.heap[sb])))[1]},
                 h \in {Release(test.heap, mcts.tree, sb)} :
                  /\ grid' = h[1]
                  /\ mcts' = [mcts EXCEPT
                         !.tree = backpropagate(@, Some(mcts.leaf), simulation_result),
                         !.boards = Tail(h),
                         !.leaf = 0,
                         !.simulation_board = 0,
                         !.steps = 0,
                         !.iterations = @ + 1,
                         !.pc = "loop"]
    /\ UNCHANGED <<original_grid, op, arg, ret, raised, move_score, move_count, game>>

\* The loop's test fails, the time budget is spent: best_move is returned
MctsReturn ==
    /\ mcts.pc = "loop"
    /\ ret' = BestMove(mcts.tree)
    /\ mcts' = Idle
    /\ op' = "get_move"
    /\ UNCHANGED <<grid, original_grid, arg, raised, move_score, move_count, game>>

NextSearch ==
    \/ GetAvailableMoves
    \/ \E strategy \in {EXPECTIMAX, MINIMAX} : GetMove(strategy)
    \/ MctsMove
    \/ SelectAndExpand
    \/ SimulateGame
    \/ Backpropagate
    \/ MctsReturn

SpecSearch == InitSearch /\ [][NextSearch]_vars

-----------------------------------------------------------------------------
(* The first pass of mcts_move on a 2 x 2 board, where a rollout is         *)
(* followed to its end whatever it draws: no rollout there is as long as   *)
(* MaxRolloutSteps.                                                         *)

MaxRolloutSteps == 30

RolloutBoards ==
    {<<(<<4, 8>>), (<<2, 0>>)>>, <<(<<2, 4>>), (<<0, 0>>)>>, <<(<<2, 4>>), (<<4, 2>>)>>}

InitRollout ==
    /\ grid \in RolloutBoards
    /\ InitVars

NextRollout ==
    \/ MctsMove
    \/ mcts.iterations = 0 /\ SelectAndExpand
    \/ SimulateGameWithin(MaxRolloutSteps)
    \/ Backpropagate
    \/ MctsReturn

SpecRollout == InitRollout /\ [][NextRollout]_vars

-----------------------------------------------------------------------------
\* C1: get_available_moves() returns exactly the directions whose move
\* changes the grid, in the order Up, Down, Left, Right; and every direction
\* the zero scan flags is one whose move changes the grid.
C1_AvailableMovesAreTheChangingMoves ==
    op = "get_available_moves" =>
        /\ ret = Some(SelectSeq(generate_dirs, LAMBDA d : Changes(original_grid, d)))
        /\ \A k \in 1..Len(generate_dirs) :
               get_available_from_zeros(original_grid)[k]
                   => Changes(original_grid, generate_dirs[k])

\* C1 witness: a board where one direction is found by the zero scan, one by
\* the move on a clone (a merge with no gap to slide into) and one is illegal.
C1_Witness ==
    /\ op = "get_available_moves"
    /\ \E k \in 1..4 : get_available_from_zeros(original_grid)[k]
    /\ \E k \in 1..4 : /\ ~get_available_from_zeros(original_grid)[k]
                       /\ generate_dirs[k] \in {ret[1][n] : n \in 1..Len(ret[1])}
    /\ Len(ret[1]) < 4

\* C2: in a move every line becomes its tiles paired off from the edge they
\* move to: a tile of the result is one original tile or the double of two
\* equal neighbours, a doubled tile is not paired again, and the pairs
\* nearest the edge go first.
C2_EachTileMergesAtMostOnce ==
    op = "move" =>
        /\ \A k \in 1..Len(grid) :
               LineOf(grid, arg[1], k)
                   = Pad(PairOff(NonZeros(LineOf(original_grid, arg[1], k))), Len(grid))
        /\ \A k \in 1..Len(grid) : arg[1] = Left =>
               /\ original_grid[k] = <<2, 2, 4, 0>> => grid[k] = <<4, 4, 0, 0>>
               /\ original_grid[k] = <<2, 2, 2, 2>> => grid[k] = <<4, 4, 0, 0>>
               /\ original_grid[k] = <<2, 2, 2, 0>> => grid[k] = <<4, 2, 0, 0>>

\* C2 witness: Left on a row [2,2,2,2] has given [4,4,0,0].
C2_Witness ==
    /\ op = "move"
    /\ arg[1] = Left
    /\ \E k \in 1..Len(grid) :
           original_grid[k] = <<2, 2, 2, 2>> /\ grid[k] = <<4, 4, 0, 0>>

\* C3: Right is Left under the row mirror, Up is Left under the transpose,
\* Down is Right under the transpose; the tiles end packed against the edge
\* of the move, and every row (Left, Right) or column (Up, Down) keeps its
\* tiles: the sum of the line is unchanged.
C3_DirectionsAreReorientedLeft ==
    op = "move" =>
        LET G == original_grid
            d == arg[1]
        IN  /\ d = Right => grid = FlipCols(move_grid(FlipCols(G), Some(Left)))
            /\ d = Up => grid = Transpose(move_grid(Transpose(G), Some(Left)))
            /\ d = Down => grid = Transpose(move_grid(Transpose(G), Some(Right)))
            /\ \A k \in 1..Len(grid) :
                   /\ Packed(LineOf(grid, d, k))
                   /\ SumSeq(LineOf(grid, d, k)) = SumSeq(LineOf(G, d, k))

\* C3 witness: a move Up that changed a board which is not its own transpose.
C3_Witness ==
    /\ op = "move"
    /\ arg[1] = Up
    /\ grid # original_grid
    /\ original_grid # Transpose(original_grid)
    /\ NumTiles(grid) < NumTiles(original_grid)

\* C4 as claimed: move(direction), called as the game loop calls it, returns
\* a boolean that is true exactly when the grid changed.
C4_CallerMoveReturnsChanged ==
    (op = "move" /\ arg[2] = FALSE) => ret = Some(grid # original_grid)

\* C4 amended: move rebinds the board's grid to the moved grid; it returns
\* None when called as the game loop calls it, and the boolean "the grid
\* changed" only when get_avail_call is True.
C4_MoveReturnsChangedOnlyOnRequest ==
    op = "move" =>
        /\ grid = move_grid(original_grid, Some(arg[1]))
        /\ arg[2] = FALSE => ret = None
        /\ arg[2] = TRUE => ret = Some(grid # original_grid)

\* C4 witness: a move with get_avail_call that changed the grid.
C4_Witness ==
    /\ op = "move"
    /\ arg[2] = TRUE
    /\ grid # original_grid
    /\ ret = Some(TRUE)

\* C5: calculate_move_score(G) right after move(d) on G is the sum of the
\* values of the tiles the move created by merging.
C5_ScoreIsMergeScore ==
    op = "calculate_move_score" =>
        move_score = Some(SumSeq(Tabulate(
            LAMBDA k : PairScore(NonZeros(LineOf(original_grid, arg[1], k))),
            1, Len(grid))))

\* C8: a second move in the same direction changes nothing when the first
\* merged nothing, and is then not a legal move; when it does change the
\* grid, the first move merged and left two equal neighbours on a line.
C8_SecondMoveIsNoOpUnlessMerged ==
    op = "move" =>
        LET d == arg[1]
            again == move_grid(grid, Some(d))
            merged == NumTiles(grid) < NumTiles(original_grid)
        IN  /\ ~merged =>
                /\ again = grid
                /\ \A n \in 1..Len(get_available_moves(<<grid>>, 1).ret) :
                       get_available_moves(<<grid>>, 1).ret[n] # d
            /\ again # grid =>
                /\ merged
                /\ \E k \in 1..Len(grid), j \in 1..Len(grid) - 1 :
                       /\ LineOf(grid, d, k)[j] # 0
                       /\ LineOf(grid, d, k)[j] = LineOf(grid, d, k)[j + 1]
            /\ \A k \in 1..Len(grid) :
                   (d = Left /\ original_grid[k] = <<2, 2, 4, 4>>) =>
                       grid[k] = <<4, 8, 0, 0>> /\ again = grid

\* C8 witness: a first move that slid tiles without merging any.
C8_Witness ==
    /\ op = "move"
    /\ grid # original_grid
    /\ NumTiles(grid) = NumTiles(original_grid)
    /\ NumTiles(grid) >= 2

\* C10 as claimed: insert_tile on an occupied cell, and move on a board with
\* no legal move, raise an error and leave the grid unchanged.
C10_ViolationsRaise ==
    /\ (op = "insert_tile" /\ arg[1] \in CellsOf(original_grid)
          /\ original_grid[arg[1][1]][arg[1][2]] # 0)
           => raised /\ grid = original_grid
    /\ (op = "move" /\ \A d \in {Up, Down, Left, Right} : ~Changes(original_grid, d))
           => raised /\ grid = original_grid

\* C10 amended: neither violation raises.  insert_tile on an occupied cell
\* overwrites the tile with the value given; move on a board with no legal
\* move leaves the grid unchanged and returns as any other move does.
C10_ViolationsPassSilently ==
    /\ (op = "insert_tile" /\ arg[1] \in CellsOf(original_grid)
          /\ original_grid[arg[1][1]][arg[1][2]] # 0)
           => /\ ~raised
              /\ ret = None
              /\ grid[arg[1][1]][arg[1][2]] = arg[2]
              /\ \A pos \in CellsOf(grid) :
                     pos # arg[1] => grid[pos[1]][pos[2]] = original_grid[pos[1]][pos[2]]
    /\ (op = "move" /\ \A d \in {Up, Down, Left, Right} : ~Changes(original_grid, d))
           => /\ ~raised
              /\ grid = original_grid
              /\ ret = IF arg[2] THEN Some(FALSE) ELSE None

\* C10 witness: a 4 written over a 2.
C10_Witness ==
    /\ op = "insert_tile"
    /\ ~raised
    /\ \E pos \in CellsOf(grid) :
           /\ arg = <<pos, 4>>
           /\ original_grid[pos[1]][pos[2]] = 2
           /\ grid[pos[1]][pos[2]] = 4

-----------------------------------------------------------------------------
\* C7: in every state reached from the empty board by insert_tile of a 2 or
\* a 4 into an empty cell and by move, every cell of the grid is 0 or a
\* power of two that is at least 2.
C7_CellsArePowersOfTwo ==
    \A pos \in CellsOf(grid) :
        grid[pos[1]][pos[2]] = 0 \/ PowerOfTwo(grid[pos[1]][pos[2]])

\* C7 witness: a move has merged two 4s, themselves tiles of the game, into
\* an 8.
C7_Witness ==
    /\ op = "move"
    /\ NumTiles(grid) < NumTiles(original_grid)
    /\ get_max_tile(grid) = 8
    /\ get_max_tile(original_grid) = 4

-----------------------------------------------------------------------------
(* mcts_move followed for more passes, on 2 x 2 boards of three unequal    *)
(* tiles and an empty cell: the boards of the root's children are full,     *)
(* and only where the new tile meets the 2 do they have a legal move, so    *)
(* most rollouts are over at once.                                          *)

MaxTreeIterations == 4

TreeBoards ==
    {[<<(<<8, 16>>), (<<32, 64>>)>> EXCEPT ![pos[1]][pos[2]] = 0] :
         pos \in (1..2) \X (1..2)}
        \cup {<<(<<8, 16>>), (<<2, 0>>)>>}

InitTree ==
    /\ grid \in TreeBoards
    /\ InitVars

NextTree ==
    \/ MctsMove
    \/ SelectAndExpandWithin(MaxTreeIterations)
    \/ SimulateGame
    \/ Backpropagate
    \/ MctsReturn

SpecTree == InitTree /\ [][NextTree]_vars

(* Expectimax called level by level: maximize(board, depth) and             *)
(* chance(board, depth), one call per board, on boards of two sizes, at     *)
(* every depth the recursion from get_move reaches and at the depths of     *)
(* chance's own limit.                                                      *)

MaxDepth == 4

MaxChanceDepth == 10

ExpectimaxBoards ==
    [1..2 -> [1..2 -> {0, 2, 4}]]
        \cup {[np_zeros(3, 3) EXCEPT ![1][1] = v, ![pos[1]][pos[2]] = 2] :
                  v \in {2, 4}, pos \in {<<1, 2>>, <<2, 2>>, <<3, 3>>}}
        \cup {[Checkerboard EXCEPT ![2][2] = v] : v \in {0, 16}}

InitExpectimax ==
    /\ grid \in ExpectimaxBoards
    /\ InitVars

\* maximize(board, depth), max_depth at its default
Maximize(depth) ==
    /\ op = "init"
    /\ original_grid' = grid
    /\ \E r \in {maximize(<<grid>>, 1, depth, 3)} :
           /\ grid' = r.heap[1]
           /\ ret' = r.ret
    /\ op' = "maximize"
    /\ arg' = <<depth>>
    /\ raised' = FALSE
    /\ UNCHANGED <<move_score, move_count, mcts, game>>

\* chance(board, depth)
Chance(depth) ==
    /\ op = "init"
    /\ original_grid' = grid
    /\ \E r \in {chance(<<grid>>, 1, depth)} :
           /\ grid' = r.heap[1]
           /\ ret' = r.ret
    /\ op' = "chance"
    /\ arg' = <<depth>>
    /\ raised' = FALSE
    /\ UNCHANGED <<move_score, move_count, mcts, game>>

NextExpectimax ==
    \/ \E depth \in 0..MaxDepth : Maximize(depth)
    \/ \E depth \in 0..MaxChanceDepth : Chance(depth)

SpecExpectimax == InitExpectimax /\ [][NextExpectimax]_vars

(* Minimax called level by level: minimax_move(board, 3) as get_move calls  *)
(* it, and its inner minimax(board, depth, is_maximizing) at the depths     *)
(* below it, one call per board.                                            *)

MaxMinimaxDepth == 2

MinimaxBoards == [1..2 -> [1..2 -> {0, 2, 4, 8}]]

InitMinimax ==
    /\ grid \in MinimaxBoards
    /\ InitVars

\* minimax(board, depth, is_maximizing)
Minimax(depth, is_maximizing) ==
    /\ op = "init"
    /\ original_grid' = grid
    /\ \E r \in {minimax(<<grid>>, 1, depth, is_maximizing)} :
           /\ grid' = r.heap[1]
           /\ ret' = r.ret
    /\ op' = "minimax"
    /\ arg' = <<depth, is_maximizing>>
    /\ raised' = FALSE
    /\ UNCHANGED <<move_score, move_count, mcts, game>>

\* minimax_move(board, max_depth=3)
MinimaxMove ==
    /\ op = "init"
    /\ original_grid' = grid
    /\ \E r \in {minimax_move(<<grid>>, 1, 3)} :
           /\ grid' = r.heap[1]
           /\ ret' = r.ret
    /\ op' = "minimax_move"
    /\ arg' = <<3>>
    /\ raised' = FALSE
    /\ UNCHANGED <<move_score, move_count, mcts, game>>

NextMinimax ==
    \/ \E depth \in 0..MaxMinimaxDepth, is_maximizing \in BOOLEAN :
           Minimax(depth, is_maximizing)
    \/ MinimaxMove

SpecMinimax == InitMinimax /\ [][NextMinimax]_vars

(* The game, main.py GameGrid: __init__ and init_matrix build a board with  *)
(* two random tiles and schedule run_game; run_game plays a turn and         *)
(* schedules itself again unless the game is in step mode or over;           *)
(* step_move plays a turn on request; toggle_pause flips is_paused.  The     *)
(* games followed are played by Minimax.                                     *)

GameLen == 2

MaxTurns == 3

\* init_matrix(): GameBoard(grid_len) and two calls of add_random_tile()
InitialBoards ==
    {insert_tile(insert_tile(<<np_zeros(GameLen, GameLen)>>, 1, c[1], v1).heap,
                 1, c[2], v2).heap[1] :
         c \in {cc \in CellsOf(np_zeros(GameLen, GameLen))
                         \X CellsOf(np_zeros(GameLen, GameLen)) : cc[1] # cc[2]},
         v1 \in {2, 4}, v2 \in {2, 4}}

InitGame ==
    /\ grid \in InitialBoards
    /\ original_grid = grid
    /\ op = "init"
    /\ arg = <<>>
    /\ ret = None
    /\ raised = FALSE
    /\ move_score = None
    /\ move_count = 0
    /\ mcts = Idle
    /\ \E strategy \in {MINIMAX}, step_mode \in BOOLEAN :
           game = [NoGame EXCEPT !.strategy = Some(strategy), !.step_mode = step_mode,
                                 !.scheduled = TRUE]

\* the test as one that never finds the game over
NoMoveLeftNever(a) == FALSE

\* if len(self.board.get_available_moves()) == 0
NoMoveLeft(a) == Len(get_available_moves(<<a>>, 1).ret) = 0

\* The try block of run_game and of step_move: original_grid is copied, the
\* AI is asked, its move applied and scored, the move counted, a random tile
\* added (cell and value are its two draws) and the game-over test made.
\* scheduled_after is whether a call of run_game is pending after the turn,
\* scheduled_when_over whether one is when the turn ended the game.  At most
\* MaxTurns turns are followed.
Turn(waiting_for_step, scheduled_after, scheduled_when_over) ==
    /\ move_count < MaxTurns
    /\ original_grid' = grid
    /\ \E asked \in {get_move(<<grid>>, 1, game.strategy[1])} :
       \E moved \in {move(asked.heap, 1, asked.ret, FALSE).heap[1]} :
       \E score \in {calculate_move_score(moved, grid)} :
       \E empty_cells \in {get_available_cells(moved)} :
           /\ ret' = asked.ret
           /\ move_score' = Some(score)
           /\ move_count' = move_count + 1
           /\ IF empty_cells = <<>>
              THEN grid' = moved
              ELSE \E cell \in 1..Len(empty_cells), value \in {2, 4} :
                       grid' = insert_tile(<<moved>>, 1, empty_cells[cell], value).heap[1]
           /\ game' = [game EXCEPT !.score = @ + score,
                                   !.waiting_for_step = waiting_for_step,
                                   !.game_over = NoMoveLeft(grid'),
                                   !.scheduled = IF NoMoveLeft(grid')
                                                 THEN scheduled_when_over
                                                 ELSE scheduled_after]

\* The callback returns before its try block: nothing but the schedule changes.
NoTurn(scheduled_after) ==
    /\ game' = [game EXCEPT !.scheduled = scheduled_after]
    /\ UNCHANGED <<grid, original_grid, ret, move_score, move_count>>

\* run_game(), when the event loop runs the scheduled call
RunGame ==
    /\ game.scheduled
    /\ IF game.game_over
       THEN NoTurn(FALSE)
       ELSE IF game.is_paused /\ ~(game.step_mode /\ game.waiting_for_step)
       THEN NoTurn(TRUE)
       ELSE Turn(FALSE, ~game.step_mode, FALSE)
    /\ op' = "run_game"
    /\ arg' = <<>>
    /\ raised' = FALSE
    /\ UNCHANGED mcts

\* step_move(); is_paused is cleared for the turn and restored after it
StepMove ==
    /\ game.strategy # None
    /\ IF ~game.step_mode \/ game.game_over
       THEN NoTurn(game.scheduled)
       ELSE Turn(game.waiting_for_step, game.scheduled, game.scheduled)
    /\ op' = "step_move"
    /\ arg' = <<>>
    /\ raised' = FALSE
    /\ UNCHANGED mcts

\* toggle_pause()
TogglePause ==
    /\ game.strategy # None
    /\ game' = [game EXCEPT !.is_paused = ~@]
    /\ op' = "toggle_pause"
    /\ arg' = <<>>
    /\ raised' = FALSE
    /\ UNCHANGED <<grid, original_grid, ret, move_score, move_count, mcts>>

NextGame ==
    \/ RunGame
    \/ StepMove
    \/ TogglePause

SpecGame == InitGame /\ [][NextGame]_vars

-----------------------------------------------------------------------------
\* The legal moves of grid a: the directions whose move changes it.
LegalMoves(a) == {d \in {Up, Down, Left, Right} : Changes(a, d)}

\* C6: get_move returns a legal move of the board whenever there is one and
\* None exactly when there is none, under Expectimax and Minimax; mcts_move
\* returns a legal move or None, and None exactly when the board has no legal
\* move or the loop ended before its first pass, the root then having no
\* children.
C6_GetMoveReturnsALegalMove ==
    [][/\ (op' = "get_move" /\ arg'[1] \in {EXPECTIMAX, MINIMAX}) =>
              /\ ret' = None <=> LegalMoves(original_grid') = {}
              /\ ret' # None => ret'[1] \in LegalMoves(original_grid')
       /\ (mcts.pc = "loop" /\ mcts'.pc = "idle") =>
              /\ ret' = None <=> (LegalMoves(grid) = {} \/ mcts.iterations = 0)
              /\ ret' = None <=> mcts.tree[1].children = <<>>
              /\ ret' # None => ret'[1] \in LegalMoves(grid)]_vars

\* C6 witness: Minimax has returned one of the legal moves of a board on
\* which some direction is not legal.
C6_Witness ==
    /\ op = "get_move"
    /\ arg = <<MINIMAX>>
    /\ ret # None
    /\ ret[1] \in LegalMoves(original_grid)
    /\ LegalMoves(original_grid) # {Up, Down, Left, Right}

\* C9: get_available_moves and get_move, under each strategy and at every
\* point of an MCTS search, leave the grid of the caller's board as it was;
\* and Expectimax called again on the board it returned from gives the same
\* move.
C9_SearchLeavesTheBoardAlone ==
    /\ op \in {"get_available_moves", "get_move", "mcts_move"} => grid = original_grid
    /\ (op = "get_move" /\ arg = <<EXPECTIMAX>>) =>
           get_move(<<grid>>, 1, EXPECTIMAX).ret = ret

\* C9 witness: Expectimax has returned a move on a board with an empty cell,
\* where its chance nodes insert tiles.
C9_Witness ==
    /\ op = "get_move"
    /\ arg = <<EXPECTIMAX>>
    /\ ret # None
    /\ get_available_cells(grid) # <<>>

-----------------------------------------------------------------------------
\* The sum of the tiles of grid a.
SumTiles(a) == SumSeq(Tabulate(LAMBDA i : SumSeq(a[i]), 1, Len(a)))

\* The board a rollout is played on.
SimulationBoard == (<<grid>> \o mcts.boards)[mcts.simulation_board]

\* C11: every rollout ends, whatever moves, tiles and cells are drawn: each
\* pass of simulate_game's loop leaves more on the board than it found, at
\* least 2 and at most 4 more, and no rollout runs for MaxRolloutSteps
\* passes, so each one has stopped at a board with no legal move.
C11_RolloutsEnd ==
    /\ [][(mcts.pc = "simulate" /\ mcts'.pc = "simulate") =>
              /\ mcts'.steps = mcts.steps + 1
              /\ SumTiles(SimulationBoard') - SumTiles(SimulationBoard) \in {2, 4}]_vars
    /\ [](mcts.pc = "simulate" => mcts.steps < MaxRolloutSteps)

\* C11 witness: a rollout of more than ten passes has reached a board with
\* no legal move.
C11_Witness ==
    /\ mcts.pc = "simulate"
    /\ mcts.steps > 10
    /\ LegalMoves(SimulationBoard) = {}

-----------------------------------------------------------------------------
\* The children of the root, in the order they were created.
RootChildren(tree) == tree[1].children

\* C12: when the loop of mcts_move ends, the move returned is that of the
\* earliest child of the root that no other child has more visits than,
\* whatever the scores; and no move is returned exactly when the root has no
\* children.
C12_MostVisitedChildIsReturned ==
    [][(mcts.pc = "loop" /\ mcts'.pc = "idle") =>
           LET tree == mcts.tree
               children == RootChildren(tree)
               Most == {k \in 1..Len(children) :
                           \A l \in 1..Len(children) :
                               tree[children[l]].visits <= tree[children[k]].visits}
           IN  /\ ret' = None <=> children = <<>>
               /\ children # <<>> =>
                      \E k \in Most :
                          /\ \A l \in Most : k <= l
                          /\ ret' = tree[children[k]].move]_vars

\* C12 witness: the loop is about to end with a second child of the root
\* visited more often than the first and of a lower average score.
C12_Witness ==
    /\ mcts.pc = "loop"
    /\ Len(RootChildren(mcts.tree)) >= 2
    /\ LET a == mcts.tree[RootChildren(mcts.tree)[1]]
           b == mcts.tree[RootChildren(mcts.tree)[2]]
       IN  /\ b.visits > a.visits
           /\ b.total_score * a.visits < a.total_score * b.visits

-----------------------------------------------------------------------------
\* Node n of the tree and the nodes above it, up to the root.
RECURSIVE PathToRoot(_, _)
PathToRoot(tree, n) ==
    IF tree[n].parent = None THEN {n} ELSE {n} \cup PathToRoot(tree, tree[n].parent[1])

\* The visits of the children of node n, added up.
ChildrenVisits(tree, n) ==
    SumSeq(Tabulate(LAMBDA k : tree[tree[n].children[k]].visits, 1, Len(tree[n].children)))

\* C13: a pass of the loop adds one visit and the result of its rollout to
\* the node select_and_expand returned and to every node above it, and
\* nothing to any other node; between passes the root has as many visits as
\* passes were made, every other node has at least one, and no node has
\* fewer visits than its children together.
C13_VisitsAreCountedAlongThePath ==
    /\ [][(mcts.pc = "simulate" /\ mcts'.pc = "loop") =>
              LET result == eval_board(SimulationBoard,
                                       Len(get_available_cells(SimulationBoard)))[1]
              IN  /\ Len(mcts'.tree) = Len(mcts.tree)
                  /\ mcts'.iterations = mcts.iterations + 1
                  /\ \A n \in 1..Len(mcts.tree) :
                         IF n \in PathToRoot(mcts.tree, mcts.leaf)
                         THEN /\ mcts'.tree[n].visits = mcts.tree[n].visits + 1
                              /\ mcts'.tree[n].total_score
                                     = mcts.tree[n].total_score + result
                         ELSE mcts'.tree[n] = mcts.tree[n]]_vars
    /\ [](mcts.pc = "loop" =>
              /\ mcts.tree[1].visits = mcts.iterations
              /\ \A n \in 2..Len(mcts.tree) : mcts.tree[n].visits >= 1
              /\ \A n \in 1..Len(mcts.tree) :
                     mcts.tree[n].visits >= ChildrenVisits(mcts.tree, n))

\* C13 witness: after three passes or more the tree has a node two levels
\* below the root, and a node visited more often than its children together.
C13_Witness ==
    /\ mcts.pc = "loop"
    /\ mcts.iterations >= 3
    /\ \E n \in 2..Len(mcts.tree) : mcts.tree[n].parent # Some(1)
    /\ \E n \in 2..Len(mcts.tree) :
           /\ mcts.tree[n].children # <<>>
           /\ mcts.tree[n].visits > ChildrenVisits(mcts.tree, n)

-----------------------------------------------------------------------------
\* The board node n of the tree holds.
NodeBoard(n) == (<<grid>> \o mcts.boards)[mcts.tree[n].board]

\* The moves that lead to the children of node n, in the order of the children.
ChildMoves(tree, n) ==
    Tabulate(LAMBDA k : tree[tree[n].children[k]].move[1], 1, Len(tree[n].children))

NoDuplicates(list) ==
    \A k, l \in 1..Len(list) : list[k] = list[l] => k = l

\* C14: at every node the untried moves and the moves of the children are
\* disjoint, no two children have the same move, and together they are the
\* legal moves of the node's board; so a node has neither children nor
\* untried moves exactly when its board has no legal move.  A node gets a
\* child only for one of its untried moves, which is then no longer untried.
C14_UntriedAndChildrenPartitionTheLegalMoves ==
    /\ [](\A n \in 1..Len(mcts.tree) :
              LET untried  == Elements(mcts.tree[n].untried_moves)
                  children == Elements(ChildMoves(mcts.tree, n))
              IN  /\ untried \cap children = {}
                  /\ NoDuplicates(ChildMoves(mcts.tree, n))
                  /\ NoDuplicates(mcts.tree[n].untried_moves)
                  /\ untried \cup children = LegalMoves(NodeBoard(n))
                  /\ (mcts.tree[n].children = <<>> /\ mcts.tree[n].untried_moves = <<>>)
                         <=> LegalMoves(NodeBoard(n)) = {})
    /\ [][(mcts.tree # <<>> /\ Len(mcts'.tree) > Len(mcts.tree)) =>
              /\ Len(mcts'.tree) = Len(mcts.tree) + 1
              /\ LET child  == mcts'.tree[Len(mcts'.tree)]
                     parent == child.parent[1]
                 IN  /\ mcts.tree[parent].untried_moves # <<>>
                     /\ child.move[1] \in Elements(mcts.tree[parent].untried_moves)
                     /\ child.move[1] \notin Elements(mcts'.tree[parent].untried_moves)
                     /\ mcts'.tree[parent].children
                            = Append(mcts.tree[parent].children, Len(mcts'.tree))]_vars

\* C14 witness: a tree with a node that has both children and untried moves,
\* a node whose legal moves all have children, and a node with no legal move.
C14_Witness ==
    /\ mcts.pc = "loop"
    /\ \E n \in 1..Len(mcts.tree) :
           mcts.tree[n].children # <<>> /\ mcts.tree[n].untried_moves # <<>>
    /\ \E n \in 1..Len(mcts.tree) :
           Len(mcts.tree[n].children) >= 2 /\ mcts.tree[n].untried_moves = <<>>
    /\ \E n \in 1..Len(mcts.tree) : LegalMoves(NodeBoard(n)) = {}

-----------------------------------------------------------------------------
\* The legal moves of grid a in the order Up, Down, Left, Right.
LegalInOrder(a) == SelectSeq(generate_dirs, LAMBDA d : Changes(a, d))

\* The value of the chance node below move m of grid a, entered at depth.
ChanceValue(a, m, depth) == chance(<<move_grid(a, Some(m))>>, 1, depth).ret

\* C15: below max_depth maximize returns the legal move whose chance node has
\* the greatest first component, the last such move in the order Up, Down,
\* Left, Right, and with it the whole tuple of that chance node; at
\* max_depth and deeper it returns no move and the evaluation of the board.
C15_MaximizeReturnsTheLastBestMove ==
    op = "maximize" =>
        IF arg[1] >= 3
        THEN ret = <<None, eval_board(grid, Len(get_available_cells(grid)))>>
        ELSE LET legal == LegalInOrder(grid)
                 Value(k) == ChanceValue(grid, legal[k], arg[1] + 1)
             IN  legal # <<>> =>
                     \E k \in 1..Len(legal) :
                         /\ ret = <<Some(legal[k]), Value(k)>>
                         /\ \A l \in 1..Len(legal) :
                                /\ Value(l)[1] <= Value(k)[1]
                                /\ l > k => Value(l)[1] < Value(k)[1]

\* C15 witness: the greatest first component is that of the first legal move
\* and of a later one, and maximize returned the later one.
C15_Witness ==
    /\ op = "maximize"
    /\ arg[1] < 3
    /\ LET legal == LegalInOrder(grid)
           Value(k) == ChanceValue(grid, legal[k], arg[1] + 1)
       IN  /\ Len(legal) >= 2
           /\ ret[1] # Some(legal[1])
           /\ Value(1)[1] = ret[2][1]
           /\ Value(1)[1] > NEG_INF

-----------------------------------------------------------------------------
\* The depths at which maximize(board, depth, max_depth) and the calls below
\* it take the static evaluation of a board, and the same for chance(board,
\* depth): the conditions of the two methods, without the values.
RECURSIVE EvaluatedBelowMaximize(_, _, _)
RECURSIVE EvaluatedBelowChance(_, _)

EvaluatedBelowMaximize(a, depth, max_depth) ==
    IF depth >= max_depth THEN {depth}
    ELSE UNION {EvaluatedBelowChance(move_grid(a, Some(m)), depth + 1) :
                    m \in Elements(get_available_moves(<<a>>, 1).ret)}

EvaluatedBelowChance(a, depth) ==
    With(get_available_cells(a), LAMBDA empty_cells :
        IF Len(empty_cells) >= Len(a) * 2 /\ depth >= Max(3, 20 \div Len(a))
        THEN {depth}
        ELSE IF Len(empty_cells) = 0
        THEN EvaluatedBelowMaximize(a, depth + 1, 3)
        ELSE UNION {EvaluatedBelowMaximize(insert_tile(<<a>>, 1, pos, value).heap[1],
                                           depth + 1, 3) :
                        pos \in Elements(empty_cells), value \in {2, 4}})

\* The greatest depth at which get_move's maximize(board, 0, 3) evaluates a
\* board; 0 when no call below it evaluates one.
SearchedTo(a) ==
    With(EvaluatedBelowMaximize(a, 0, 3), LAMBDA depths :
        IF depths = {} THEN 0 ELSE CHOOSE d \in depths : \A e \in depths : e <= d)

\* max(3, floor(5 / (grid_len / 4))) as the specification writes it
AdaptiveLimit(grid_len) == Max(3, (5 * 4) \div grid_len)

\* C16: chance returns the static evaluation without enumerating tile
\* placements exactly when empty_count >= 2 * grid_len and depth >= max(3,
\* floor(5 / (grid_len / 4))), a limit never below 3, and so a board with the
\* larger limit is searched to a greater depth than a board with the smaller.
C16_SmallerBoardsAreSearchedDeeper ==
    /\ op = "chance" =>
           LET n_empty == Len(get_available_cells(grid))
               cutoff  == n_empty >= 2 * Len(grid) /\ arg[1] >= AdaptiveLimit(Len(grid))
           IN  /\ AdaptiveLimit(Len(grid)) >= 3
               /\ cutoff => ret = eval_board(grid, n_empty)
               /\ cutoff <=> EvaluatedBelowChance(grid, arg[1]) = {arg[1]}
    /\ (op = "maximize" /\ arg[1] = 0 /\ SearchedTo(grid) > 0) =>
           \A larger \in ExpectimaxBoards :
               (/\ AdaptiveLimit(Len(larger)) < AdaptiveLimit(Len(grid))
                /\ SearchedTo(larger) > 0)
                   => SearchedTo(grid) > SearchedTo(larger)

\* What holds of the depth instead: the cutoff of chance is as written, and
\* maximize(board, 0, 3) evaluates no board anywhere but at depth 4, on the
\* boards of either size.
Depth_CutoffAsWrittenAndSearchToFour ==
    /\ op = "chance" =>
           LET n_empty == Len(get_available_cells(grid))
               cutoff  == n_empty >= 2 * Len(grid) /\ arg[1] >= AdaptiveLimit(Len(grid))
           IN  /\ AdaptiveLimit(Len(grid)) >= 3
               /\ cutoff => ret = eval_board(grid, n_empty)
               /\ cutoff <=> EvaluatedBelowChance(grid, arg[1]) = {arg[1]}
    /\ (op = "maximize" /\ arg[1] = 0) => EvaluatedBelowMaximize(grid, 0, 3) \subseteq {4}

\* chance cut its search off, on a board of either size.
Depth_CutoffTaken ==
    /\ op = "chance"
    /\ Len(get_available_cells(grid)) >= 2 * Len(grid)
    /\ arg[1] >= AdaptiveLimit(Len(grid))
    /\ Len(grid) = 3

-----------------------------------------------------------------------------
\* The boards at which the recursion below minimax(board, depth,
\* is_maximizing) stops: depth 0, or no legal move.
RECURSIVE StoppedBelow(_, _, _)
StoppedBelow(a, depth, is_maximizing) ==
    IF depth = 0 \/ LegalMoves(a) = {} THEN {a}
    ELSE IF is_maximizing
    THEN UNION {With(MovedCopy(<<a>>, 1, m), LAMBDA board_copy :
                    StoppedBelow(board_copy.heap[board_copy.ref], depth - 1, FALSE)) :
                    m \in LegalMoves(a)}
    ELSE UNION {StoppedBelow(insert_tile(<<a>>, 1, cell, 4).heap[1], depth - 1, TRUE) :
                    cell \in Elements(get_available_cells(a))}

\* The score minimax_move gives move m of grid a.
ScoreOf(a, m, max_depth) == MinimaxOn(MovedCopy(<<a>>, 1, m), max_depth - 1, FALSE).ret

\* C17: every value minimax returns, in either layer and at any depth, is
\* the total utility of a board at which the recursion below it stopped,
\* never an infinity, and the scores minimax_move compares are finite.
C17_MinimaxValuesAreEvaluations ==
    /\ op = "minimax" =>
           /\ ret \in {eval_board(a, Len(get_available_cells(a)))[1] :
                          a \in StoppedBelow(grid, arg[1], arg[2])}
           /\ ret \notin {NEG_INF, POS_INF}
    /\ op = "minimax_move" =>
           \A m \in LegalMoves(grid) : ScoreOf(grid, m, arg[1]) \notin {NEG_INF, POS_INF}

\* minimax_move compared a score of +infinity and returned its move.
Minimax_InfiniteScoreWins ==
    /\ op = "minimax_move"
    /\ ret # None
    /\ ScoreOf(grid, ret[1], arg[1]) = POS_INF
    /\ \E m \in LegalMoves(grid) : ScoreOf(grid, m, arg[1]) < POS_INF

-----------------------------------------------------------------------------
-----------------------------------------------------------------------------
\* The board the maximizing side of Expectimax hands to chance for move m of
\* grid a: the clone MovesBoards made and moved.
ChanceBoard(a, m) ==
    With(MovesBoards(get_available_moves(<<a>>, 1), 1), LAMBDA moves_boards :
        moves_boards.heap[(CHOOSE mb \in Elements(moves_boards.ret) : mb[1] = m)[2]])

\* C19: after a move in a direction get_available_moves() returned the board
\* has an empty cell and its tiles add up to what they did before; so the 4
\* Minimax places on its moved copy always finds a cell, and the board
\* maximize hands to chance always has one.
C19_ALegalMoveLeavesAnEmptyCell ==
    (op = "move" /\ arg[1] \in Elements(get_available_moves(<<original_grid>>, 1).ret)) =>
        /\ get_available_cells(grid) # <<>>
        /\ SumTiles(grid) = SumTiles(original_grid)
        /\ With(MovedCopy(<<original_grid>>, 1, arg[1]), LAMBDA board_copy :
               NumTiles(board_copy.heap[board_copy.ref]) = NumTiles(grid) + 1)
        /\ get_available_cells(ChanceBoard(original_grid, arg[1])) # <<>>

\* C19 witness: a legal move was made on a board without an empty cell.
C19_Witness ==
    /\ op = "move"
    /\ arg[1] \in Elements(get_available_moves(<<original_grid>>, 1).ret)
    /\ get_available_cells(original_grid) = <<>>
    /\ Len(get_available_cells(grid)) = 1

====
